---- MODULE Spec2Model ----
(***************************************************************************)
(* Block access list: BalanceChange (balance_change.rs), the               *)
(* BlockAccessList vector of AccountChanges (bal.rs), and the RLP encoding *)
(* and keccak256 commitment taken over it.                                 *)
(***************************************************************************)
EXTENDS Integers, Sequences, FiniteSets, TLC

\* ------------------------------------------------------------------ bounds

\* Transaction indices range over 0..MaxTx.
MaxTx == 2
\* At most MaxChanges balance changes are recorded in one block.
MaxChanges == 2
\* At most MaxAccounts AccountChanges exist in one block.
MaxAccounts == 2

TxIndices == 0..MaxTx
\* Balances the execution engine records: zero and the first value whose
\* encoding needs a length prefix.
Balances == {0, 128}
\* Account addresses, named by their last byte.
Addresses == {1, 2}

\* ------------------------------------------------- BalanceChange (the leaf)

\* Mutant of BalanceChange_new: the transaction index is left at its default.
BalanceChange_new_default_index(t, b) == [tx_index |-> 0, post_balance |-> b]

\* Mutant of BalanceChange_new: the balance is left at its default.
BalanceChange_new_default_balance(t, b) == [tx_index |-> t, post_balance |-> 0]

\* BalanceChange::new: stores both arguments, validates nothing.
BalanceChange_new(t, b) == [tx_index |-> t, post_balance |-> b]

\* Mutant of tx_index: the accessor reads the other field.
tx_index_other_field(c) == c.post_balance

\* BalanceChange::tx_index(&self)
tx_index(c) == c.tx_index

\* BalanceChange::post_balance(&self)
post_balance(c) == c.post_balance

\* #[derive(Default)]: both fields zero.
BalanceChange_default == [tx_index |-> 0, post_balance |-> 0]

\* ------------------------------------------------------------ RLP encoding

\* alloy_rlp::EMPTY_STRING_CODE
EMPTY_STRING_CODE == 128
\* alloy_rlp::EMPTY_LIST_CODE
EMPTY_LIST_CODE == 192
\* Length of an account address in bytes.
ADDRESS_LEN == 20

RECURSIVE BeBytes(_)
\* Minimal big-endian bytes of n (no leading zero byte; empty for 0).
BeBytes(n) == IF n = 0 THEN <<>> ELSE BeBytes(n \div 256) \o <<n % 256>>

\* alloy_rlp::encode of a byte string: a single byte below 0x80 is itself,
\* anything else (the empty string included) follows a length byte.
EncodeBytes(s) ==
  IF Len(s) = 1 /\ s[1] < EMPTY_STRING_CODE THEN s
  ELSE <<EMPTY_STRING_CODE + Len(s)>> \o s

\* Mutant of EncodeUint: zero is written as the byte 0x00.
EncodeUint_zero_byte(n) ==
  IF n < EMPTY_STRING_CODE THEN <<n>>
  ELSE <<EMPTY_STRING_CODE + Len(BeBytes(n))>> \o BeBytes(n)

\* Mutant of EncodeUint: every value that fits one byte is written as that
\* byte, with no length prefix.
EncodeUint_single_byte(n) ==
  IF n = 0 THEN <<EMPTY_STRING_CODE>>
  ELSE IF n < 256 THEN <<n>>
  ELSE <<EMPTY_STRING_CODE + Len(BeBytes(n))>> \o BeBytes(n)

\* An unsigned integer: 0 is the empty string, a value below 0x80 is its own
\* byte, anything else is its minimal big-endian bytes behind a length byte.
EncodeUint(n) ==
  IF n = 0 THEN <<EMPTY_STRING_CODE>>
  ELSE IF n < EMPTY_STRING_CODE THEN <<n>>
  ELSE <<EMPTY_STRING_CODE + Len(BeBytes(n))>> \o BeBytes(n)

\* Mutant of ListHeader: the string offset is used in place of the list offset.
ListHeader_string_offset(len) ==
  IF len < 56 THEN <<EMPTY_STRING_CODE + len>>
  ELSE <<EMPTY_STRING_CODE + 55 + Len(BeBytes(len))>> \o BeBytes(len)

\* Header of a list whose payload is len bytes long.
ListHeader(len) ==
  IF len < 56 THEN <<EMPTY_LIST_CODE + len>>
  ELSE <<EMPTY_LIST_CODE + 55 + Len(BeBytes(len))>> \o BeBytes(len)

EncodeList(payload) == ListHeader(Len(payload)) \o payload

RECURSIVE Concat(_)
\* Concatenation of a sequence of byte strings, in order.
Concat(ss) == IF ss = <<>> THEN <<>> ELSE Head(ss) \o Concat(Tail(ss))

\* Mutant of EncodeBalanceChange: the two fields are written in the other order.
EncodeBalanceChange_swapped(c) ==
  EncodeList(EncodeUint(c.post_balance) \o EncodeUint(c.tx_index))

\* #[derive(RlpEncodable)] on BalanceChange: the list [tx_index, post_balance].
EncodeBalanceChange(c) ==
  EncodeList(EncodeUint(c.tx_index) \o EncodeUint(c.post_balance))

\* The 20 bytes of the address named a.
AddressBytes(a) == [i \in 1..ADDRESS_LEN |-> IF i = ADDRESS_LEN THEN a ELSE 0]

\* A fixed 20-byte string: length byte, then the bytes.
EncodeAddress(a) == <<EMPTY_STRING_CODE + ADDRESS_LEN>> \o AddressBytes(a)

\* Vec<BalanceChange>: the list of the element encodings, in order.
EncodeBalanceChanges(cs) ==
  EncodeList(Concat([i \in 1..Len(cs) |-> EncodeBalanceChange(cs[i])]))

\* AccountChanges: the list [address, balance_changes].
EncodeAccountChanges(ac) ==
  EncodeList(EncodeAddress(ac.address) \o EncodeBalanceChanges(ac.balance_changes))

\* alloy_rlp::encode(&bal) for bal: Vec<AccountChanges>.
canonical_bytes(l) ==
  EncodeList(Concat([i \in 1..Len(l) |-> EncodeAccountChanges(l[i])]))

\* keccak256 as an ideal hash: a digest is determined by, and determines, the
\* bytes hashed.
keccak256(bytes) == <<"keccak256", bytes>>

\* keccak256(alloy_rlp::encode(bal))
commitment_hash(l) == keccak256(canonical_bytes(l))

\* ------------------------------------------------------------ AccountChanges

\* An account's bundle with no change recorded yet.
AccountChanges_new(a) == [address |-> a, balance_changes |-> <<>>]

\* The append precondition: the new change's transaction index is strictly
\* greater than the last recorded one.
InOrder(ac, c) ==
  \/ ac.balance_changes = <<>>
  \/ tx_index(c) > tx_index(ac.balance_changes[Len(ac.balance_changes)])

\* Append: the bundle afterwards (unchanged when the append is refused).
AccountChanges_append(ac, c) ==
  IF InOrder(ac, c)
  THEN [ac EXCEPT !.balance_changes = Append(@, c)]
  ELSE ac

\* Append: the result reported to the caller.
AppendStatus(ac, c) == IF InOrder(ac, c) THEN "Ok" ELSE "OutOfOrderChange"

\* ------------------------------------------------------------------- state

VARIABLES
  accounts,  \* the engine's AccountChanges of the block, in creation order
  bal,       \* the BlockAccessList: a Vec<AccountChanges>
  built,     \* the engine's bundles have been moved into bal
  first,     \* the first encoding / hash taken of bal
  latest,    \* the most recent encoding / hash taken of bal
  last,      \* the last operation and the result it returned
  change,    \* a BalanceChange value held by a caller
  copy,      \* a clone of change
  left,      \* a list value handed to the encoder
  right,     \* another list value handed to the encoder
  encoded,   \* the encodings of left and right, once taken
  peer       \* a peer's protocol entry: its JSON and what was read from it

vars == <<accounts, bal, built, first, latest, last, change, copy,
          left, right, encoded, peer>>

NoCall == [op |-> "none"]
NoPeer == [proto |-> "none"]
NoChange == [none |-> TRUE]

TotalChanges(l) ==
  LET RECURSIVE Sum(_)
      Sum(s) == IF s = <<>> THEN 0
                ELSE Len(Head(s).balance_changes) + Sum(Tail(s))
  IN Sum(l)

Init ==
  /\ accounts = <<>>
  /\ bal = <<>>          \* BlockAccessList::default()
  /\ built = FALSE
  /\ first = NoCall
  /\ latest = NoCall
  /\ last = [op |-> "init", status |-> "Ok"]
  /\ change = NoChange
  /\ copy = NoChange
  /\ left = <<>>
  /\ right = <<>>
  /\ encoded = <<>>
  /\ peer = NoPeer

\* ----------------------------------------------------- the execution engine

\* The engine starts a bundle for address a. Nothing deduplicates addresses.
NewAccount(a) ==
  /\ ~built
  /\ Len(accounts) < MaxAccounts
  /\ accounts' = Append(accounts, AccountChanges_new(a))
  /\ last' = [op |-> "new_account", status |-> "Ok"]
  /\ UNCHANGED <<bal, built, first, latest, change, copy, left, right, encoded, peer>>

\* The engine records BalanceChange::new(t, b) for its i-th account.
AppendChange(i, t, b) ==
  LET c == BalanceChange_new(t, b) IN
  /\ ~built
  /\ i \in DOMAIN accounts
  /\ InOrder(accounts[i], c) => TotalChanges(accounts) < MaxChanges
  /\ accounts' = [accounts EXCEPT ![i] = AccountChanges_append(@, c)]
  /\ last' = [op |-> "append", status |-> AppendStatus(accounts[i], c)]
  /\ UNCHANGED <<bal, built, first, latest, change, copy, left, right, encoded, peer>>

\* ---------------------------------------------------------- BlockAccessList

\* Mutant of Construct: a sequence with a repeated address is refused.
Construct_rejecting_duplicates ==
  LET dup == \E i \in DOMAIN accounts, j \in DOMAIN accounts :
               i # j /\ accounts[i].address = accounts[j].address IN
  /\ ~built
  /\ bal' = IF dup THEN <<>> ELSE accounts
  /\ accounts' = <<>>
  /\ built' = TRUE
  /\ last' = [op |-> "construct",
              status |-> IF dup THEN "DuplicateAccount" ELSE "Ok"]
  /\ UNCHANGED <<first, latest, change, copy, left, right, encoded, peer>>

RECURSIVE SortByAddress(_)
\* l in ascending address order (entries of one address keep their order).
SortByAddress(l) ==
  IF l = <<>> THEN <<>>
  ELSE LET m == CHOOSE i \in DOMAIN l :
                  /\ \A j \in DOMAIN l : l[i].address <= l[j].address
                  /\ \A j \in 1..(i - 1) : l[j].address > l[i].address
       IN <<l[m]>> \o SortByAddress(SubSeq(l, 1, m - 1) \o SubSeq(l, m + 1, Len(l)))

\* Mutant of Construct: the bundles are put in ascending address order.
Construct_sorting ==
  /\ ~built
  /\ bal' = SortByAddress(accounts)
  /\ accounts' = <<>>
  /\ built' = TRUE
  /\ last' = [op |-> "construct", status |-> "Ok"]
  /\ UNCHANGED <<first, latest, change, copy, left, right, encoded, peer>>

\* The engine's bundles are moved into the vector, as they are.
Construct ==
  /\ ~built
  /\ bal' = accounts
  /\ accounts' = <<>>
  /\ built' = TRUE
  /\ last' = [op |-> "construct", status |-> "Ok"]
  /\ UNCHANGED <<first, latest, change, copy, left, right, encoded, peer>>

\* Vec::push on the list: its owner adds a bundle for address a.
Push(a) ==
  /\ built
  /\ Len(bal) < MaxAccounts
  /\ bal' = Append(bal, AccountChanges_new(a))
  /\ last' = [op |-> "push", status |-> "Ok"]
  /\ UNCHANGED <<accounts, built, first, latest, change, copy, left, right, encoded, peer>>

Record(call) ==
  /\ latest' = call
  /\ first' = IF first = NoCall THEN call ELSE first

\* Mutant of CanonicalBytesCall: the list is taken by value and left empty.
CanonicalBytesCall_draining ==
  /\ built
  /\ Record([op |-> "canonical_bytes", over |-> bal, value |-> canonical_bytes(bal)])
  /\ bal' = <<>>
  /\ last' = [op |-> "canonical_bytes", status |-> "Ok"]
  /\ UNCHANGED <<accounts, built, change, copy, left, right, encoded, peer>>

\* alloy_rlp::encode(&bal)
CanonicalBytesCall ==
  /\ built
  /\ Record([op |-> "canonical_bytes", over |-> bal, value |-> canonical_bytes(bal)])
  /\ last' = [op |-> "canonical_bytes", status |-> "Ok"]
  /\ UNCHANGED <<accounts, bal, built, change, copy, left, right, encoded, peer>>

\* keccak256(alloy_rlp::encode(&bal))
CommitmentHashCall ==
  /\ built
  /\ Record([op |-> "commitment_hash", over |-> bal, value |-> commitment_hash(bal)])
  /\ last' = [op |-> "commitment_hash", status |-> "Ok"]
  /\ UNCHANGED <<accounts, bal, built, change, copy, left, right, encoded, peer>>

\* ---------------------------------------------- a BalanceChange and its caller

\* Balances handed to BalanceChange::new, up to the largest 32-bit signed integer.
SampleBalances == {0, 1, 127, 128, 255, 256, 2147483647}

\* BalanceChange::new(t, b)
NewChange(t, b) ==
  /\ change' = BalanceChange_new(t, b)
  /\ last' = [op |-> "new", status |-> "Ok"]
  /\ UNCHANGED <<accounts, bal, built, first, latest, copy, left, right, encoded, peer>>

\* BalanceChange::default()
DefaultChange ==
  /\ change' = BalanceChange_default
  /\ last' = [op |-> "default", status |-> "Ok"]
  /\ UNCHANGED <<accounts, bal, built, first, latest, copy, left, right, encoded, peer>>

\* #[derive(Clone)]: change.clone()
CloneChange ==
  /\ change # NoChange
  /\ copy' = change
  /\ last' = [op |-> "clone", status |-> "Ok"]
  /\ UNCHANGED <<accounts, bal, built, first, latest, change, left, right, encoded, peer>>

\* change.tx_index()
TxIndexCall ==
  /\ change # NoChange
  /\ last' = [op |-> "tx_index", status |-> "Ok", value |-> tx_index(change)]
  /\ UNCHANGED <<accounts, bal, built, first, latest, change, copy, left, right, encoded, peer>>

\* change.post_balance()
PostBalanceCall ==
  /\ change # NoChange
  /\ last' = [op |-> "post_balance", status |-> "Ok", value |-> post_balance(change)]
  /\ UNCHANGED <<accounts, bal, built, first, latest, change, copy, left, right, encoded, peer>>

\* alloy_rlp::encode(&change)
EncodeChangeCall ==
  /\ change # NoChange
  /\ last' = [op |-> "encode", status |-> "Ok", value |-> EncodeBalanceChange(change)]
  /\ UNCHANGED <<accounts, bal, built, first, latest, change, copy, left, right, encoded, peer>>

NextChange ==
  \/ \E t \in TxIndices, b \in SampleBalances : NewChange(t, b)
  \/ DefaultChange
  \/ CloneChange
  \/ TxIndexCall
  \/ PostBalanceCall
  \/ EncodeChangeCall

\* The leaf value on its own: construction, clone and the two accessors.
SpecChange == Init /\ [][NextChange]_vars

\* ------------------------------------------------- the encoder on its own

\* A list handed to the encoder holds at most EncSize entries, bundles and
\* balance changes counted together.
EncSize == 3

\* The balance changes the lists are made of: both fields zero, both
\* non-zero, the two fields exchanged, and a balance with a length prefix.
SampleChanges == [tx_index : {0, 1}, post_balance : {0, 1, 128}]

\* Sequences over S of length at most n.
SeqUpTo(S, n) == UNION {[1..k -> S] : k \in 0..n}

\* Every Vec<AccountChanges> of at most EncSize entries, in any order and
\* with any addresses: the encoder validates nothing.
Lists ==
  UNION {{l \in [1..k -> [address : Addresses,
                          balance_changes : SeqUpTo(SampleChanges, EncSize - k)]] :
            k + TotalChanges(l) <= EncSize} : k \in 0..EncSize}

InitEnc ==
  /\ accounts = <<>> /\ bal = <<>> /\ built = FALSE
  /\ first = NoCall /\ latest = NoCall
  /\ last = [op |-> "init", status |-> "Ok"]
  /\ change = NoChange /\ copy = NoChange
  /\ left \in Lists
  /\ right \in Lists
  /\ encoded = <<>>
  /\ peer = NoPeer

\* alloy_rlp::encode(&left), alloy_rlp::encode(&right)
EncodePair ==
  /\ encoded = <<>>
  /\ encoded' = <<canonical_bytes(left), canonical_bytes(right)>>
  /\ last' = [op |-> "canonical_bytes", status |-> "Ok"]
  /\ UNCHANGED <<accounts, bal, built, first, latest, change, copy, left, right, peer>>

NextEnc == EncodePair

\* The encoder as a function of the list value alone.
SpecEnc == InitEnc /\ [][NextEnc]_vars

\* ------------------------------------ admin API: a peer's protocol entry

\* JSON values (serde_json::Value) a node may send as a protocol entry.
JString(x) == [kind |-> "string", str |-> x]
JNumber(n) == [kind |-> "number", n |-> n]
JNull == [kind |-> "null"]
JArray(items) == [kind |-> "array", items |-> items]
\* An object: its "version" member (JAbsent if it has none) and whether it
\* has other members, such as "difficulty" and "head".
JAbsent == [kind |-> "absent"]
JObject(version, others) == [kind |-> "object", version |-> version, others |-> others]

\* Negotiated protocol versions seen on the wire.
Versions == {0, 1, 67, 68}
SampleStrings == {"handshake", "Handshake", "HANDSHAKE", "handshake ", "hand", "info", ""}
Scalars == {JNumber(v) : v \in Versions \cup {-1}} \cup {JString("68"), JNull}

WireValues ==
  {JString(x) : x \in SampleStrings}
  \cup Scalars
  \cup {JObject(v, o) : v \in Scalars \cup {JAbsent}, o \in BOOLEAN}
  \cup {JArray(<<>>), JArray(<<JNumber(68)>>), JArray(<<JNumber(68), JNumber(1)>>)}

Ok(v) == [ok |-> TRUE, value |-> v]
Err(msg) == [ok |-> FALSE, error |-> msg]

Handshake == [variant |-> "Handshake"]
Info(version) == [variant |-> "Info", version |-> version]
PeerInfoValues == {Handshake} \cup {Info(v) : v \in Versions}

\* u64::deserialize
DeserializeU64(j) ==
  IF j.kind = "number" /\ j.n >= 0 THEN Ok(j.n) ELSE Err("invalid type")

\* EthInfo / SnapInfo: #[derive(Deserialize)] #[serde(default)] on a struct
\* with the one field version. A map may lack the field and may hold others;
\* a sequence gives the field by position.
DeserializeInfo(j) ==
  CASE j.kind = "object" ->
         IF j.version = JAbsent THEN Ok(Info(0))
         ELSE LET v == DeserializeU64(j.version) IN
              IF v.ok THEN Ok(Info(v.value)) ELSE v
    [] j.kind = "array" ->
         IF Len(j.items) = 0 THEN Ok(Info(0))
         ELSE IF Len(j.items) = 1
         THEN LET v == DeserializeU64(j.items[1]) IN
              IF v.ok THEN Ok(Info(v.value)) ELSE v
         ELSE Err("invalid length")
    [] OTHER -> Err("invalid type")

\* handshake::deserialize taking every string for the handshake.
handshake_deserialize_any_string(j) ==
  IF j.kind # "string" THEN Err("invalid type") ELSE Ok(Handshake)

\* handshake::deserialize
handshake_deserialize(j) ==
  IF j.kind # "string" THEN Err("invalid type")
  ELSE IF j.str = "handshake" THEN Ok(Handshake)
  ELSE Err("expected \"handshake\" if protocol info did not appear in the response")

\* handshake::serialize
handshake_serialize == JString("handshake")

\* EthPeerInfo / SnapPeerInfo: #[serde(untagged)], the variants tried in the
\* order they are declared.
DeserializePeerInfo(proto, j) ==
  IF DeserializeInfo(j).ok THEN DeserializeInfo(j)
  ELSE IF handshake_deserialize(j).ok THEN handshake_deserialize(j)
  ELSE Err("data did not match any variant of untagged enum "
           \o (IF proto = "eth" THEN "EthPeerInfo" ELSE "SnapPeerInfo"))

\* #[derive(Serialize)] of the untagged enum.
SerializePeerInfo(v) ==
  IF v.variant = "Handshake" THEN handshake_serialize
  ELSE JObject(JNumber(v.version), FALSE)

NoResult == [pending |-> TRUE]
FromWire == [variant |-> "None"]

\* The node's response holds j as the eth or snap entry of "protocols".
Receive(proto, j) ==
  /\ peer' = [proto |-> proto, wire |-> j, from |-> FromWire, result |-> NoResult]
  /\ last' = [op |-> "receive", status |-> "Ok"]
  /\ UNCHANGED <<accounts, bal, built, first, latest, change, copy, left, right, encoded>>

\* serde_json::to_value of a protocol entry held in memory.
SerializePeer(proto, v) ==
  /\ peer' = [proto |-> proto, wire |-> SerializePeerInfo(v), from |-> v,
              result |-> NoResult]
  /\ last' = [op |-> "serialize", status |-> "Ok"]
  /\ UNCHANGED <<accounts, bal, built, first, latest, change, copy, left, right, encoded>>

\* serde_json::from_value of the entry on the wire.
DeserializePeer ==
  /\ peer # NoPeer
  /\ peer.result = NoResult
  /\ peer' = [peer EXCEPT !.result = DeserializePeerInfo(peer.proto, peer.wire)]
  /\ last' = [op |-> "deserialize",
              status |-> IF DeserializePeerInfo(peer.proto, peer.wire).ok
                         THEN "Ok" ELSE "Err"]
  /\ UNCHANGED <<accounts, bal, built, first, latest, change, copy, left, right, encoded>>

NextPeer ==
  \/ \E proto \in {"eth", "snap"}, j \in WireValues : Receive(proto, j)
  \/ \E proto \in {"eth", "snap"}, v \in PeerInfoValues : SerializePeer(proto, v)
  \/ DeserializePeer

\* A peer's protocol entry read from, and written to, JSON.
SpecPeer == Init /\ [][NextPeer]_vars

\* ------------------------------------------------------- the block pipeline

Next ==
  \/ \E a \in Addresses : NewAccount(a)
  \/ \E i \in 1..MaxAccounts, t \in TxIndices, b \in Balances : AppendChange(i, t, b)
  \/ Construct
  \/ \E a \in Addresses : Push(a)
  \/ CanonicalBytesCall
  \/ CommitmentHashCall

Spec == Init /\ [][Next]_vars

\* ================================================================== claims

StrictlyIncreasing(cs) ==
  \A j \in 1..Len(cs), k \in 1..Len(cs) : j < k => cs[j].tx_index < cs[k].tx_index

AllInOrder(l) == \A i \in DOMAIN l : StrictlyIncreasing(l[i].balance_changes)

DistinctAddresses(l) ==
  \A i \in DOMAIN l, j \in DOMAIN l : i # j => l[i].address # l[j].address

C2_DuplicateRejected ==
  last.op = "construct" => (last.status = "DuplicateAccount" \/ DistinctAddresses(bal))

\* C2 as amended: construction from any sequence of bundles succeeds and the
\* list holds exactly the supplied entries, a repeated address included.
C2_ConstructKeepsAll ==
  [][(~built /\ last'.op = "construct") =>
       (last'.status = "Ok" /\ bal' = accounts)]_vars

\* C2 witness: a list just constructed holds two entries with one address.
C2_Witness == last.op = "construct" /\ ~DistinctAddresses(bal)

\* The bytes of b from offset off (0-based), n of them.
Slice(b, off, n) == SubSeq(b, off + 1, off + n)

RECURSIVE EncodedLenUpTo(_, _)
\* Total length of the encodings of the first n entries of l.
EncodedLenUpTo(l, n) ==
  IF n = 0 THEN 0
  ELSE EncodedLenUpTo(l, n - 1) + Len(EncodeAccountChanges(l[n]))

\* The encodings of the entries of l lie in bytes one after the other, in the
\* order of l, behind a header, and nothing follows them.
InSuppliedOrder(bytes, l) ==
  LET hdr == Len(bytes) - EncodedLenUpTo(l, Len(l)) IN
  /\ hdr >= 1
  /\ \A i \in DOMAIN l :
       Slice(bytes, hdr + EncodedLenUpTo(l, i - 1), Len(EncodeAccountChanges(l[i])))
         = EncodeAccountChanges(l[i])

\* C6: construction from bundles with pairwise distinct addresses succeeds,
\* and the entries lie in canonical_bytes() in the order they were supplied.
C6_OrderPreserved ==
  [][(~built /\ last'.op = "construct" /\ DistinctAddresses(accounts)) =>
       /\ last'.status = "Ok"
       /\ Len(bal') = Len(accounts)
       /\ InSuppliedOrder(canonical_bytes(bal'), accounts)]_vars

\* C6 witness: a list just constructed from two bundles supplied in
\* descending address order, each with a balance change.
C6_Witness ==
  /\ last.op = "construct" /\ Len(bal) = 2
  /\ bal[1].address > bal[2].address
  /\ bal[1].balance_changes # <<>> /\ bal[2].balance_changes # <<>>

Calls == {c \in {first, latest} : c # NoCall}

\* C7: the empty list encodes to the single byte EMPTY_LIST_CODE, and no
\* list with an entry encodes to that byte.
C7_EmptyListMarker ==
  \A c \in Calls : c.op = "canonical_bytes" =>
    (c.over = <<>> <=> c.value = <<EMPTY_LIST_CODE>>)

\* C7 witness: the empty list was encoded, then a list with an entry.
C7_Witness ==
  /\ first # NoCall /\ first.op = "canonical_bytes" /\ first.over = <<>>
  /\ latest.op = "canonical_bytes" /\ latest.over # <<>>

\* C8 as claimed: once the list has been serialized or hashed its contents
\* never change, and every later encoding is over the same entries.
C8_FrozenOnceEncoded ==
  first # NoCall => (bal = first.over /\ latest.over = first.over)

\* C8 as amended: serializing or hashing leaves the list as it was and is
\* taken over the entries the list holds at that moment.
C8_EncodingLeavesList ==
  [][last'.op \in {"canonical_bytes", "commitment_hash"} =>
       (bal' = bal /\ latest'.over = bal)]_vars

\* C8 witness: an entry was pushed after the first encoding, and the list
\* was hashed again.
C8_Witness ==
  /\ first # NoCall /\ first.op = "canonical_bytes"
  /\ latest.op = "commitment_hash" /\ latest.over # first.over
  /\ first.over # <<>>

C10_NewAndAccessors ==
  [][/\ \A t \in TxIndices, b \in SampleBalances :
          /\ ENABLED NewChange(t, b)
          /\ NewChange(t, b) =>
               /\ last'.status = "Ok"
               /\ change'.tx_index = t /\ change'.post_balance = b
     /\ last'.op = "tx_index" =>
          (last'.status = "Ok" /\ last'.value = change.tx_index /\ change' = change)
     /\ last'.op = "post_balance" =>
          (last'.status = "Ok" /\ last'.value = change.post_balance /\ change' = change)
    ]_vars

\* C10 witness: post_balance() has just returned the largest sample balance
\* of a value made with a non-zero transaction index.
C10_Witness ==
  /\ last.op = "post_balance" /\ last.value = 2147483647
  /\ change.tx_index = MaxTx

\* C5: two lists that differ in a field value, in the order of their entries
\* or in the number of their entries have different canonical_bytes().
C5_Injective ==
  (encoded # <<>> /\ left # right) => encoded[1] # encoded[2]

\* C5 witness: two lists of the same two bundles in opposite orders, each
\* bundle holding a change, have been encoded.
C5_Witness ==
  /\ encoded # <<>>
  /\ Len(left) = 2 /\ right = <<left[2], left[1]>> /\ left # right
  /\ left[1].balance_changes # <<>>

\* ---- reading an encoding back, byte by byte

\* Length of the item that starts with byte b, for a scalar of at most 55 bytes.
ItemLen(b) == IF b < 128 THEN 1 ELSE 1 + (b - 128)

RECURSIVE BeValue(_)
\* The number a big-endian byte string stands for.
BeValue(s) ==
  IF s = <<>> THEN 0 ELSE 256 * BeValue(SubSeq(s, 1, Len(s) - 1)) + s[Len(s)]

\* item is the scalar n written in the shortest way: a byte below 0x80 as
\* itself, anything else as a length byte and big-endian bytes with no
\* leading zero byte.
IsMinimalScalar(item, n) ==
  /\ item # <<>>
  /\ Len(item) = ItemLen(item[1])
  /\ IF item[1] < 128
     THEN n = item[1]
     ELSE LET body == Tail(item) IN
          /\ item[1] <= 183
          /\ BeValue(body) = n
          /\ body # <<>> => body[1] # 0
          /\ Len(body) = 1 => body[1] >= 128

\* C11: a BalanceChange is encoded as a list of exactly two elements,
\* tx_index then post_balance, each a minimal-length big-endian scalar,
\* behind a list header that carries the length of the payload.
C11_TwoElementList ==
  last.op = "encode" =>
    LET bytes == last.value
        payload == Tail(bytes)
        n1 == ItemLen(payload[1])
    IN /\ bytes[1] = 192 + Len(payload)
       /\ Len(payload) < 56
       /\ n1 < Len(payload)
       /\ IsMinimalScalar(SubSeq(payload, 1, n1), change.tx_index)
       /\ IsMinimalScalar(SubSeq(payload, n1 + 1, Len(payload)), change.post_balance)

\* C11 witness: a change with different non-zero fields, the balance two
\* bytes long, has been encoded.
C11_Witness ==
  /\ last.op = "encode"
  /\ change.tx_index = 1 /\ change.post_balance = 256

\* The two items of the payload of an encoded BalanceChange.
FieldItems(bytes) ==
  LET payload == Tail(bytes)
      n1 == ItemLen(payload[1])
  IN <<SubSeq(payload, 1, n1), SubSeq(payload, n1 + 1, Len(payload))>>

\* C12 as claimed: a field that is zero is not encoded to the bytes of the
\* empty value.
C12_ZeroDistinctFromEmpty ==
  last.op = "encode" =>
    /\ change.tx_index = 0 => FieldItems(last.value)[1] # EncodeBytes(<<>>)
    /\ change.post_balance = 0 => FieldItems(last.value)[2] # EncodeBytes(<<>>)

\* C12 as amended: a field is encoded to the bytes of the empty value, the
\* single byte EMPTY_STRING_CODE, exactly when it is zero, and never to the
\* empty-list marker.
C12_ZeroIsEmptyString ==
  last.op = "encode" =>
    LET items == FieldItems(last.value) IN
    /\ EncodeBytes(<<>>) = <<128>>
    /\ (change.tx_index = 0) <=> (items[1] = EncodeBytes(<<>>))
    /\ (change.post_balance = 0) <=> (items[2] = EncodeBytes(<<>>))
    /\ items[1] # <<EMPTY_LIST_CODE>> /\ items[2] # <<EMPTY_LIST_CODE>>

\* C12 witness: a change with tx_index zero and a non-zero balance has been
\* encoded.
C12_Witness ==
  /\ last.op = "encode"
  /\ change.tx_index = 0 /\ change.post_balance = 128

\* C13: a string entry yields Handshake if and only if it is exactly
\* "handshake" and any other string is an error; an object whose version is a
\* number yields Info with that version; Handshake serializes to the string
\* "handshake", which deserializes to Handshake again.
C13_HandshakeEntry ==
  (peer # NoPeer /\ peer.result # NoResult) =>
    /\ peer.wire.kind = "string" =>
         /\ (peer.wire.str = "handshake") <=> (peer.result = Ok(Handshake))
         /\ peer.wire.str # "handshake" => ~peer.result.ok
    /\ (peer.wire.kind = "object" /\ peer.wire.version.kind = "number"
          /\ peer.wire.version.n >= 0) =>
         peer.result = Ok(Info(peer.wire.version.n))
    /\ peer.from = Handshake =>
         /\ peer.wire = [kind |-> "string", str |-> "handshake"]
         /\ peer.result = Ok(Handshake)

\* C13 witness: the snap entry, written from Handshake, has been read back.
C13_Witness ==
  /\ peer # NoPeer /\ peer.proto = "snap"
  /\ peer.from = Handshake /\ peer.result # NoResult

====
